---- MODULE Spec2Model ----
(***************************************************************************)
(* mealmatcher: the meal ranking / selection pipeline.                     *)
(*                                                                         *)
(* Two generations of the pipeline live in the repository:                 *)
(*   - matchMeals (strict variant, positional output), with its own        *)
(*     getRequiredProductsForMeal / isRequiredProductDiscountsValid /      *)
(*     isProductShelfLifeValid;                                            *)
(*   - rankMeals (rich variant, plan keyed by day name), with              *)
(*     hasIngredients / isNotInPlan and the random fallback.               *)
(* Both are modelled, one loop iteration (one day) per step.               *)
(*                                                                         *)
(* Data representation                                                     *)
(*   Meal     [Slug, PreparationTimeMinutes, CanBeLeftovers, NumberOfPeople]*)
(*   Product  [Meal, Quantity, MaxShelfLifeInDays, IsBonusRequired, ID, URL]*)
(*            ID is a number (compared through toString());                *)
(*            MaxShelfLifeInDays is <<>> for the empty cell "" and <<n>>   *)
(*            for the number n                                             *)
(*   WeekDay  [Day, Date, NumberOfPeople, NumberOfPeopleLeftovers,         *)
(*             MaxPreparationTime]; Date is a day count since 1970-01-01   *)
(*   Meal | null   <<>> for null, <<m>> for the meal m                     *)
(***************************************************************************)
EXTENDS Integers, Sequences, FiniteSets

VARIABLES meals, bonusProductIds, products, weekPlan,
          pc, dayIndex, plan, planBefore, conditions, matches, planSeq

vars == <<meals, bonusProductIds, products, weekPlan,
          pc, dayIndex, plan, planBefore, conditions, matches, planSeq>>

inputs == <<meals, bonusProductIds, products, weekPlan>>

(***************************************************************************)
(* Bounds of the explored inputs.                                          *)
(***************************************************************************)
MaxMeals == 2

MaxDays == 2

Null == <<>>

(***************************************************************************)
(* Input catalogs: the meals, products, discount lists and days the        *)
(* explored inputs are drawn from.                                         *)
(***************************************************************************)
MealCatalog ==
  { [Slug |-> "pasta", PreparationTimeMinutes |-> 15, CanBeLeftovers |-> TRUE,  NumberOfPeople |-> 2],
    [Slug |-> "stew",  PreparationTimeMinutes |-> 60, CanBeLeftovers |-> TRUE,  NumberOfPeople |-> 4],
    [Slug |-> "roast", PreparationTimeMinutes |-> 60, CanBeLeftovers |-> FALSE, NumberOfPeople |-> 3] }

ProductCatalog ==
  << [Meal |-> "pasta", Quantity |-> 3, MaxShelfLifeInDays |-> <<>>,  IsBonusRequired |-> FALSE, ID |-> 1,  URL |-> "u1"],
     [Meal |-> "pasta", Quantity |-> 1, MaxShelfLifeInDays |-> <<3>>, IsBonusRequired |-> TRUE,  ID |-> 10, URL |-> "u10"],
     [Meal |-> "stew",  Quantity |-> 2, MaxShelfLifeInDays |-> <<5>>, IsBonusRequired |-> FALSE, ID |-> 1,  URL |-> "u1"],
     [Meal |-> "roast", Quantity |-> 1, MaxShelfLifeInDays |-> <<0>>, IsBonusRequired |-> FALSE, ID |-> 10, URL |-> "u10"],
     [Meal |-> "roast", Quantity |-> 2, MaxShelfLifeInDays |-> <<1>>, IsBonusRequired |-> TRUE,  ID |-> 1,  URL |-> "u1"] >>

BonusCatalog == << "1", "10" >>

\* 1970-01-05 is a Monday, 1970-01-09 a Friday, 1970-01-04 and 1970-01-11 Sundays.
DayCatalog ==
  { [Day |-> "Monday", Date |-> 4,  NumberOfPeople |-> 4, NumberOfPeopleLeftovers |-> 0, MaxPreparationTime |-> 60],
    [Day |-> "Friday", Date |-> 8,  NumberOfPeople |-> 2, NumberOfPeopleLeftovers |-> 1, MaxPreparationTime |-> 20],
    [Day |-> "Sunday", Date |-> 10, NumberOfPeople |-> 2, NumberOfPeopleLeftovers |-> 3, MaxPreparationTime |-> 60],
    [Day |-> "Sunday", Date |-> 3,  NumberOfPeople |-> 2, NumberOfPeopleLeftovers |-> 0, MaxPreparationTime |-> 90] }

\* The sequences of pairwise distinct elements of S, of length at most n.
DistinctSeqs(S, n) ==
  UNION { { s \in [1..k -> S] : \A a, b \in 1..k : a # b => s[a] # s[b] } : k \in 0..n }

\* The subsequences of s (elements kept in order).
RECURSIVE SubSeqs(_)
SubSeqs(s) ==
  IF s = <<>> THEN { <<>> }
  ELSE LET rest == SubSeqs(Tail(s))
       IN  rest \cup { <<Head(s)>> \o r : r \in rest }

(***************************************************************************)
(* JavaScript primitives.                                                  *)
(***************************************************************************)
Digit == << "0", "1", "2", "3", "4", "5", "6", "7", "8", "9" >>

\* Number.prototype.toString() of a non-negative integer.
RECURSIVE toString(_)
toString(n) ==
  IF n < 10 THEN Digit[n + 1]
  ELSE toString(n \div 10) \o Digit[(n % 10) + 1]

\* Array.prototype.includes
includes(list, x) == \E k \in DOMAIN list : list[k] = x

\* Mutant: Math.floor instead of Math.ceil.
CeilDivFloor(a, b) == a \div b

\* Math.ceil(a / b) for a >= 0, b > 0
CeilDiv(a, b) == (a + b - 1) \div b

\* new Date(date).getDay(): 0 = Sunday .. 6 = Saturday (1970-01-01 is a Thursday)
getDay(date) == (date + 4) % 7

\* !x for a MaxShelfLifeInDays cell: "" and 0 are falsy
Falsy(cell) == cell = <<>> \/ cell[1] = 0

\* Number(x) for a MaxShelfLifeInDays cell: Number("") is 0
NumberOf(cell) == IF cell = <<>> THEN 0 ELSE cell[1]

(***************************************************************************)
(* Rich variant: the quantity resolver and the six evaluators.             *)
(***************************************************************************)
\* Mutant: the day's headcount is used only when the day is Sunday.
MultiplierSundayOnly(day, meal, options) ==
  CeilDiv(IF options.isMealLeftoverValid /\ day.Day = "Sunday"
            THEN day.NumberOfPeople + day.NumberOfPeopleLeftovers
            ELSE meal.NumberOfPeople,
          meal.NumberOfPeople)

\* The multiplier of getRequiredProductsForMeal.
Multiplier(day, meal, options) ==
  CeilDiv(IF options.isMealLeftoverValid
            THEN day.NumberOfPeople + day.NumberOfPeopleLeftovers
            ELSE meal.NumberOfPeople,
          meal.NumberOfPeople)

getRequiredProductsForMeal(day, meal, ingredients, options) ==
  [k \in DOMAIN ingredients |->
     [ingredients[k] EXCEPT !.Quantity = ingredients[k].Quantity * Multiplier(day, meal, options)]]

\* Mutant: the ceiling is exclusive.
isPreparationTimeValidExclusive(meal, day) ==
  meal.PreparationTimeMinutes < day.MaxPreparationTime

isPreparationTimeValid(meal, day) ==
  meal.PreparationTimeMinutes <= day.MaxPreparationTime

\* Mutant: the headcount test is >= 0.
isMealLeftoverValidNonNegative(day, meal) ==
  day.Day # "Sunday" \/ (day.NumberOfPeopleLeftovers >= 0 /\ meal.CanBeLeftovers)

\* Mutant: the leftover rule is applied on every day, not only on Sunday.
isMealLeftoverValidEveryDay(day, meal) ==
  day.NumberOfPeopleLeftovers > 0 /\ meal.CanBeLeftovers

isMealLeftoverValid(day, meal) ==
  day.Day # "Sunday" \/ (day.NumberOfPeopleLeftovers > 0 /\ meal.CanBeLeftovers)

\* Mutant: the earlier form of the rule, some(required and not discounted).
isRequiredProductDiscountsValidSome(ingredients, bonusIds) ==
  \E k \in DOMAIN ingredients :
    /\ ingredients[k].IsBonusRequired
    /\ ~ includes(bonusIds, toString(ingredients[k].ID))

isRequiredProductDiscountsValid(ingredients, bonusIds) ==
  LET ingredientsRequiringBonus == SelectSeq(ingredients, LAMBDA p : p.IsBonusRequired)
  IN  \A k \in DOMAIN ingredientsRequiringBonus :
        includes(bonusIds, toString(ingredientsRequiringBonus[k].ID))

isProductShelfLifeValid(productsRequired, date) ==
  LET deliveryDayInWeek == 2
      day == getDay(date)
      dayInWeek == IF day = 0 THEN 7 ELSE day
  IN  \A k \in DOMAIN productsRequired :
        \/ Falsy(productsRequired[k].MaxShelfLifeInDays)
        \/ NumberOf(productsRequired[k].MaxShelfLifeInDays) >= dayInWeek - deliveryDayInWeek

\* Mutant: the length test is >= 0.
hasIngredientsOrNone(productsRequired) == Len(productsRequired) >= 0

hasIngredients(productsRequired) == Len(productsRequired) > 0

\* Mutant: the committed entries are compared whole (m === meal) instead of by
\* Slug; a committed entry is an enriched copy, so it never equals an input meal.
isNotInPlanByReference(meal, p) ==
  LET committed == { p[d][1] : d \in { e \in DOMAIN p : p[e] # Null } }
  IN  ~ \E m \in committed : m = meal

\* Object.values(plan).filter(p => p !== null), then some(m => m.Slug === meal.Slug)
isNotInPlan(meal, p) ==
  LET committed == { p[d][1] : d \in { e \in DOMAIN p : p[e] # Null } }
  IN  ~ \E m \in committed : m.Slug = meal.Slug

(***************************************************************************)
(* Array.prototype.sort with a comparator b.key - a.key: a stable sort,    *)
(* descending by key.  Element k of the input lands at position            *)
(* 1 + (number of elements with a greater key)                             *)
(*   + (number of earlier elements with the same key).                     *)
(***************************************************************************)
\* Mutant: an unstable sort, elements of equal key come out in reverse order.
SortDescRankTiesReversed(keys, k) ==
  1 + Cardinality({ j \in DOMAIN keys : keys[j] > keys[k] })
    + Cardinality({ j \in DOMAIN keys : j > k /\ keys[j] = keys[k] })

SortDescRank(keys, k) ==
  1 + Cardinality({ j \in DOMAIN keys : keys[j] > keys[k] })
    + Cardinality({ j \in DOMAIN keys : j < k /\ keys[j] = keys[k] })

SortDesc(s, keys) ==
  [pos \in DOMAIN s |-> s[CHOOSE k \in DOMAIN s : SortDescRank(keys, k) = pos]]

(***************************************************************************)
(* rankMeals: the pipeline of one day.                                     *)
(***************************************************************************)
\* Mutant: the sort by preparation time is left out.
CandidatesUnsorted(ms, ps) ==
  [k \in DOMAIN ms |->
     [meal |-> ms[k],
      ingredients |-> SelectSeq(ps, LAMBDA p : p.Meal = ms[k].Slug)]]

\* 0. pair every meal with its ingredients, sorted by preparation time descending
Candidates(ms, ps) ==
  LET paired == [k \in DOMAIN ms |->
                   [meal |-> ms[k],
                    ingredients |-> SelectSeq(ps, LAMBDA p : p.Meal = ms[k].Slug)]]
  IN  SortDesc(paired, [k \in DOMAIN paired |-> paired[k].meal.PreparationTimeMinutes])

\* the conditions object the filter callback builds for one candidate
Conditions(day, c, bonusIds, p) ==
  LET productsRequired ==
        getRequiredProductsForMeal(day, c.meal, c.ingredients,
                                   [isMealLeftoverValid |-> isMealLeftoverValid(day, c.meal)])
  IN  [hasIngredients |-> hasIngredients(c.ingredients),
       isNotInPlan |-> isNotInPlan(c.meal, p),
       isPreparationTimeValid |-> isPreparationTimeValid(c.meal, day),
       isMealLeftoverValid |-> isMealLeftoverValid(day, c.meal),
       isRequiredProductDiscountsValid |-> isRequiredProductDiscountsValid(productsRequired, bonusIds),
       isProductShelfLifeValid |-> isProductShelfLifeValid(productsRequired, day.Date)]

\* Mutant: the shelf-life condition is left out of the conjunction.
FilterResultNoShelfLife(cond) ==
  /\ cond.hasIngredients
  /\ cond.isNotInPlan
  /\ cond.isPreparationTimeValid
  /\ cond.isMealLeftoverValid
  /\ cond.isRequiredProductDiscountsValid

\* the result of the filter callback
FilterResult(cond) ==
  /\ cond.hasIngredients
  /\ cond.isNotInPlan
  /\ cond.isPreparationTimeValid
  /\ cond.isMealLeftoverValid
  /\ cond.isRequiredProductDiscountsValid
  /\ cond.isProductShelfLifeValid

\* 2. the scoring callback
Scored(day, c, bonusIds) ==
  LET productsRequired ==
        getRequiredProductsForMeal(day, c.meal, c.ingredients,
                                   [isMealLeftoverValid |-> isMealLeftoverValid(day, c.meal)])
      productsDiscounted ==
        SelectSeq(productsRequired, LAMBDA p : includes(bonusIds, toString(p.ID)))
  IN  [meal |-> [Slug |-> c.meal.Slug,
                 PreparationTimeMinutes |-> c.meal.PreparationTimeMinutes,
                 CanBeLeftovers |-> c.meal.CanBeLeftovers,
                 NumberOfPeople |-> c.meal.NumberOfPeople,
                 productsRequired |-> productsRequired,
                 productsDiscounted |-> [k \in DOMAIN productsDiscounted |-> productsDiscounted[k].URL]],
       score |-> Len(productsDiscounted)]

\* Mutant: the comparator is a.score - b.score (ascending).
SortByScoreAscending(scored) ==
  SortDesc(scored, [k \in DOMAIN scored |-> 0 - scored[k].score])

\* 3. sort by score descending
SortByScore(scored) ==
  SortDesc(scored, [k \in DOMAIN scored |-> scored[k].score])

\* matches of one day, given the plan committed so far
Matches(day, ms, bonusIds, ps, p) ==
  LET cands == Candidates(ms, ps)
      kept == SelectSeq(cands, LAMBDA c : FilterResult(Conditions(day, c, bonusIds, p)))
  IN  SortByScore([k \in DOMAIN kept |-> Scored(day, kept[k], bonusIds)])

\* Mutant: a day without a match is skipped without writing its key.
PlanSetSkipNull(p, key, value) ==
  IF value = Null THEN p
  ELSE [d \in DOMAIN p \cup {key} |-> IF d = key THEN value ELSE p[d]]

\* plan[key] = value
PlanSet(p, key, value) ==
  [d \in DOMAIN p \cup {key} |-> IF d = key THEN value ELSE p[d]]

(***************************************************************************)
(* Strict variant: its own quantity resolver and evaluators.               *)
(***************************************************************************)
getRequiredProductsForMealStrict(day, meal, ps, options) ==
  LET own == SelectSeq(ps, LAMBDA p : p.Meal = meal.Slug)
  IN  [k \in DOMAIN own |->
         [own[k] EXCEPT !.Quantity = own[k].Quantity * Multiplier(day, meal, options)]]

isRequiredProductDiscountsValidStrict(productsRequired, bonusIds) ==
  \E k \in DOMAIN productsRequired :
    /\ productsRequired[k].IsBonusRequired
    /\ ~ includes(bonusIds, toString(productsRequired[k].ID))

\* p.MaxShelfLifeInDays >= n coerces the cell with Number()
isProductShelfLifeValidStrict(productsRequired, date) ==
  LET deliveryDayInWeek == 2
      day == getDay(date)
      dayInWeek == IF day = 0 THEN 7 ELSE day
  IN  \A k \in DOMAIN productsRequired :
        NumberOf(productsRequired[k].MaxShelfLifeInDays) >= dayInWeek - deliveryDayInWeek

\* the filter callback of matchMeals
FilterStrict(day, meal, bonusIds, ps) ==
  LET productsRequired ==
        getRequiredProductsForMealStrict(day, meal, ps,
                                         [isMealLeftoverValid |-> isMealLeftoverValid(day, meal)])
  IN  /\ isPreparationTimeValid(meal, day)
      /\ isMealLeftoverValid(day, meal)
      /\ isRequiredProductDiscountsValidStrict(productsRequired, bonusIds)
      /\ isProductShelfLifeValidStrict(productsRequired, day.Date)

\* the scoring callback of matchMeals
ScoredStrict(day, meal, bonusIds, ps) ==
  LET productsRequired ==
        getRequiredProductsForMealStrict(day, meal, ps,
                                         [isMealLeftoverValid |-> isMealLeftoverValid(day, meal)])
      productsDiscounted ==
        SelectSeq(productsRequired, LAMBDA p : includes(bonusIds, toString(p.ID)))
  IN  [meal |-> meal, score |-> Len(productsDiscounted)]

\* matches of one day of matchMeals
MatchesStrict(day, ms, bonusIds, ps) ==
  LET kept == SelectSeq(ms, LAMBDA m : FilterStrict(day, m, bonusIds, ps))
  IN  SortByScore([k \in DOMAIN kept |-> ScoredStrict(day, kept[k], bonusIds, ps)])

(***************************************************************************)
(* The state machine.  The caller hands fully resolved inputs to rankMeals *)
(* or to matchMeals; each step is one iteration of the loop over the week. *)
(***************************************************************************)
EmptyPlan == [d \in {} |-> Null]

Init ==
  /\ meals \in DistinctSeqs(MealCatalog, MaxMeals)
  /\ products \in SubSeqs(ProductCatalog)
  /\ bonusProductIds \in SubSeqs(BonusCatalog)
  /\ weekPlan \in DistinctSeqs(DayCatalog, MaxDays)
  /\ pc \in {"rankMeals", "matchMeals"}
  /\ dayIndex = 1
  /\ plan = EmptyPlan
  /\ planBefore = EmptyPlan
  /\ conditions = <<>>
  /\ matches = <<>>
  /\ planSeq = <<>>

\* Mutant: the random index is always 0.
CommitmentsIndexZero(m) ==
  IF Len(m) = 0
    THEN { Null }
    ELSE IF m[1].score # 0
           THEN { <<m[1].meal>> }
           ELSE { <<m[randIndex + 1].meal>> : randIndex \in 0 .. 0 }

\* the entries the end of an iteration can write for the day: null without
\* matches, the top match when its score is not 0, else matches[randIndex]
\* for randIndex = Math.floor(Math.random() * matches.length)
Commitments(m) ==
  IF Len(m) = 0
    THEN { Null }
    ELSE IF m[1].score # 0
           THEN { <<m[1].meal>> }
           ELSE { <<m[randIndex + 1].meal>> : randIndex \in 0 .. (Len(m) - 1) }

\* one iteration of the loop of rankMeals
RankDay ==
  /\ pc = "rankMeals"
  /\ dayIndex <= Len(weekPlan)
  /\ LET day == weekPlan[dayIndex]
         cands == Candidates(meals, products)
         m == Matches(day, meals, bonusProductIds, products, plan)
     IN  /\ conditions' = [k \in DOMAIN cands |->
                             [meal |-> cands[k].meal,
                              ingredients |-> cands[k].ingredients,
                              productsRequired |->
                                getRequiredProductsForMeal(day, cands[k].meal, cands[k].ingredients,
                                  [isMealLeftoverValid |-> isMealLeftoverValid(day, cands[k].meal)]),
                              conditions |-> Conditions(day, cands[k], bonusProductIds, plan)]]
         /\ matches' = m
         /\ \E entry \in Commitments(m) : plan' = PlanSet(plan, day.Day, entry)
  /\ planBefore' = plan
  /\ dayIndex' = dayIndex + 1
  /\ UNCHANGED <<inputs, pc, planSeq>>

\* return plan
RankReturn ==
  /\ pc = "rankMeals"
  /\ dayIndex > Len(weekPlan)
  /\ pc' = "rankReturned"
  /\ UNCHANGED <<inputs, dayIndex, plan, planBefore, conditions, matches, planSeq>>

\* one iteration of the loop of matchMeals
MatchDay ==
  /\ pc = "matchMeals"
  /\ dayIndex <= Len(weekPlan)
  /\ LET day == weekPlan[dayIndex]
         m == MatchesStrict(day, meals, bonusProductIds, products)
     IN  /\ matches' = m
         /\ planSeq' = Append(planSeq, IF Len(m) > 0 THEN <<m[1].meal>> ELSE Null)
  /\ dayIndex' = dayIndex + 1
  /\ UNCHANGED <<inputs, pc, plan, planBefore, conditions>>

\* return plan
MatchReturn ==
  /\ pc = "matchMeals"
  /\ dayIndex > Len(weekPlan)
  /\ pc' = "matchReturned"
  /\ UNCHANGED <<inputs, dayIndex, plan, planBefore, conditions, matches, planSeq>>

Next == RankDay \/ RankReturn \/ MatchDay \/ MatchReturn

Spec == Init /\ [][Next]_vars

(***************************************************************************)
(* Vocabulary of the properties, stated on the inputs directly.            *)
(***************************************************************************)
\* the ingredients a meal owns, in catalog order
Owned(meal) == SelectSeq(products, LAMBDA p : p.Meal = meal.Slug)

\* the ingredient's identifier is in the discount list
Discounted(p) == \E k \in DOMAIN bonusProductIds : bonusProductIds[k] = toString(p.ID)

\* the discount score of a meal: its ingredients whose identifier is discounted
DiscountScore(meal) ==
  Cardinality({ k \in DOMAIN products :
                  products[k].Meal = meal.Slug /\ Discounted(products[k]) })

\* the input meal a committed (enriched) meal was made from
SameMeal(entry, meal) == entry # Null /\ entry[1].Slug = meal.Slug

\* the day the last iteration processed
LastDay == weekPlan[dayIndex - 1]

RankStepped == pc \in {"rankMeals", "rankReturned"} /\ dayIndex > 1

MatchStepped == pc \in {"matchMeals", "matchReturned"} /\ dayIndex > 1

\* the six evaluators for a day, given the plan committed before that day
Feasible(day, meal, before) ==
  /\ Len(Owned(meal)) >= 1
  /\ \A d \in DOMAIN before : before[d] = Null \/ before[d][1].Slug # meal.Slug
  /\ meal.PreparationTimeMinutes <= day.MaxPreparationTime
  /\ isMealLeftoverValid(day, meal)
  /\ \A k \in DOMAIN Owned(meal) : Owned(meal)[k].IsBonusRequired => Discounted(Owned(meal)[k])
  /\ isProductShelfLifeValid(Owned(meal), day.Date)

\* the survivors of the last processed day of rankMeals
Survivors == { k \in DOMAIN meals : Feasible(LastDay, meals[k], planBefore) }

(***************************************************************************)
(* C1: the plan of rankMeals never holds the same Meal.Slug under two      *)
(* different day keys, in any state of the run (after each day's           *)
(* commitment as well as at the end), whatever the random choices.         *)
(***************************************************************************)
C1_NoSlugTwice ==
  \A d1, d2 \in DOMAIN plan :
    (d1 # d2 /\ plan[d1] # Null /\ plan[d2] # Null)
      => plan[d1][1].Slug # plan[d2][1].Slug

\* two days hold meals, and on the second day a candidate that passed every
\* other evaluator was turned away because it was already in the plan
C1_Witness ==
  /\ RankStepped
  /\ Cardinality({ d \in DOMAIN plan : plan[d] # Null }) = 2
  /\ \E k \in DOMAIN conditions :
       /\ ~ conditions[k].conditions.isNotInPlan
       /\ conditions[k].conditions.hasIngredients
       /\ conditions[k].conditions.isPreparationTimeValid
       /\ conditions[k].conditions.isMealLeftoverValid
       /\ conditions[k].conditions.isRequiredProductDiscountsValid
       /\ conditions[k].conditions.isProductShelfLifeValid

(***************************************************************************)
(* C2: every non-null meal rankMeals commits for a day passes all six      *)
(* evaluators for that day: it owns at least one ingredient, no earlier    *)
(* day holds it, its preparation time is within the day's maximum, it is   *)
(* leftover-valid, every IsBonusRequired ingredient is discounted, and     *)
(* every ingredient's shelf life is valid for the day's date.              *)
(***************************************************************************)
C2_CommittedIsFeasible ==
  (RankStepped /\ plan[LastDay.Day] # Null)
    => \E k \in DOMAIN meals :
         /\ SameMeal(plan[LastDay.Day], meals[k])
         /\ Feasible(LastDay, meals[k], planBefore)

\* a meal was committed on a day on which another candidate failed an evaluator
C2_Witness ==
  /\ RankStepped
  /\ plan[LastDay.Day] # Null
  /\ planBefore # EmptyPlan
  /\ \E k \in DOMAIN conditions : ~ conditions[k].conditions.isProductShelfLifeValid
  /\ \E k \in DOMAIN conditions : ~ conditions[k].conditions.isRequiredProductDiscountsValid

(***************************************************************************)
(* C3: for each day of rankMeals, if at least one survivor has a discount  *)
(* score > 0, the score of the committed meal equals the maximum score     *)
(* over all survivors of that day.                                         *)
(***************************************************************************)
C3_TopScoreCommitted ==
  (RankStepped /\ \E k \in Survivors : DiscountScore(meals[k]) > 0)
    => /\ plan[LastDay.Day] # Null
       /\ \E k \in Survivors :
            /\ SameMeal(plan[LastDay.Day], meals[k])
            /\ \A j \in Survivors : DiscountScore(meals[j]) <= DiscountScore(meals[k])

\* the committed meal beat a survivor that has a lower positive score and a
\* longer preparation time (so that survivor came first before scoring)
C3_Witness ==
  /\ RankStepped
  /\ \E k, j \in Survivors :
       /\ SameMeal(plan[LastDay.Day], meals[k])
       /\ DiscountScore(meals[j]) > 0
       /\ DiscountScore(meals[j]) < DiscountScore(meals[k])
       /\ meals[j].PreparationTimeMinutes > meals[k].PreparationTimeMinutes

(***************************************************************************)
(* C4: for a week whose Day names are distinct, the plan of rankMeals has  *)
(* exactly one key per processed day; a day without a survivor maps to an  *)
(* explicit null (its key is present, the keys of the earlier days are     *)
(* kept), and the run returns only after every day of the week has been    *)
(* processed, null days included.                                          *)
(***************************************************************************)
DistinctDayNames ==
  \A a, b \in DOMAIN weekPlan : a # b => weekPlan[a].Day # weekPlan[b].Day

C4_OneKeyPerDay ==
  (pc \in {"rankMeals", "rankReturned"} /\ DistinctDayNames)
    => /\ DOMAIN plan = { weekPlan[k].Day : k \in 1 .. (dayIndex - 1) }
       /\ Cardinality(DOMAIN plan) = dayIndex - 1
       /\ (dayIndex > 1 /\ Survivors = {}) => plan[LastDay.Day] = Null
       /\ \A d \in DOMAIN planBefore : plan[d] = planBefore[d]
       /\ pc = "rankReturned" => dayIndex - 1 = Len(weekPlan)

\* a returned plan whose first day is null and whose second day holds a meal
C4_Witness ==
  /\ pc = "rankReturned"
  /\ DistinctDayNames
  /\ Len(weekPlan) = 2
  /\ plan[weekPlan[1].Day] = Null
  /\ plan[weekPlan[2].Day] # Null

(***************************************************************************)
(* C5 (as claimed): given an empty discount list or an empty catalog (no   *)
(* meals or no products), every entry of the returned plan is null.        *)
(***************************************************************************)
AllNull ==
  /\ \A d \in DOMAIN plan : plan[d] = Null
  /\ \A k \in DOMAIN planSeq : planSeq[k] = Null

Returned == pc \in {"rankReturned", "matchReturned"}

C5_Original ==
  (pc = "rankReturned" /\ (bonusProductIds = <<>> \/ meals = <<>> \/ products = <<>>))
    => AllNull

(***************************************************************************)
(* C5 (amended): given an empty catalog (no meals or no products) both     *)
(* rankMeals and matchMeals return a plan with one entry per day, every    *)
(* entry null.  Given an empty discount list rankMeals still returns a     *)
(* plan with a key for every day, and commits meals: each committed meal   *)
(* is one none of whose ingredients is IsBonusRequired.                    *)
(***************************************************************************)
C5_Amended ==
  /\ (Returned /\ (meals = <<>> \/ products = <<>>))
       => /\ AllNull
          /\ pc = "rankReturned" => DOMAIN plan = { weekPlan[k].Day : k \in DOMAIN weekPlan }
          /\ pc = "matchReturned" => Len(planSeq) = Len(weekPlan)
  /\ (pc = "rankReturned" /\ bonusProductIds = <<>>)
       => /\ DOMAIN plan = { weekPlan[k].Day : k \in DOMAIN weekPlan }
          /\ \A d \in DOMAIN plan :
               plan[d] # Null =>
                 \E k \in DOMAIN meals :
                   /\ SameMeal(plan[d], meals[k])
                   /\ \A j \in DOMAIN Owned(meals[k]) : ~ Owned(meals[k])[j].IsBonusRequired

\* rankMeals returned for two meals, two days (a Monday among them), a
\* non-empty discount list and no products
C5_Witness ==
  /\ pc = "rankReturned"
  /\ products = <<>>
  /\ Len(meals) = 2
  /\ Len(weekPlan) = 2
  /\ \E k \in DOMAIN weekPlan : weekPlan[k].Day = "Monday"
  /\ bonusProductIds # <<>>
  /\ AllNull

(***************************************************************************)
(* C6 (as claimed): matchMeals selects a meal for a day only if all of its *)
(* IsBonusRequired ingredients have their ID in the bonus list, and a meal *)
(* without IsBonusRequired ingredients is not excluded by the discount     *)
(* rule: when such a meal passes the other three filters of the day, the   *)
(* day gets a meal.                                                        *)
(***************************************************************************)
PassesOtherStrictFilters(day, meal) ==
  /\ meal.PreparationTimeMinutes <= day.MaxPreparationTime
  /\ isMealLeftoverValid(day, meal)
  /\ isProductShelfLifeValidStrict(Owned(meal), day.Date)

C6_Claim ==
  MatchStepped =>
    LET entry == planSeq[dayIndex - 1]
    IN  /\ entry # Null =>
             \A k \in DOMAIN products :
               (products[k].Meal = entry[1].Slug /\ products[k].IsBonusRequired)
                 => Discounted(products[k])
        /\ (\E k \in DOMAIN meals :
              /\ PassesOtherStrictFilters(LastDay, meals[k])
              /\ \A j \in DOMAIN Owned(meals[k]) : ~ Owned(meals[k])[j].IsBonusRequired)
             => entry # Null

(***************************************************************************)
(* C7: matchMeals yields one entry per processed day, in input order;      *)
(* entry k is null when no meal passes the filters of day k, otherwise the *)
(* first meal, in input meal order, among the passing meals of highest     *)
(* discount score.  Each entry is a function of the inputs and of its own  *)
(* day alone.                                                              *)
(***************************************************************************)
ExpectedStrict(day) ==
  LET pass == { i \in DOMAIN meals : FilterStrict(day, meals[i], bonusProductIds, products) }
      best == { i \in pass : \A j \in pass : DiscountScore(meals[j]) <= DiscountScore(meals[i]) }
  IN  IF pass = {} THEN Null
      ELSE <<meals[CHOOSE i \in best : \A j \in best : i <= j]>>

C7_FirstBestPerDay ==
  (pc \in {"matchMeals", "matchReturned"})
    => /\ Len(planSeq) = dayIndex - 1
       /\ pc = "matchReturned" => Len(planSeq) = Len(weekPlan)
       /\ \A k \in DOMAIN planSeq : planSeq[k] = ExpectedStrict(weekPlan[k])

\* the same meal was selected for both days, ahead of a later meal that
\* passed with the same score on one of them
C7_Witness ==
  /\ pc = "matchReturned"
  /\ Len(planSeq) = 2
  /\ planSeq[1] # Null
  /\ planSeq[1] = planSeq[2]
  /\ Len(meals) = 2
  /\ planSeq[1][1] = meals[1]
  /\ \E k \in DOMAIN weekPlan :
       /\ FilterStrict(weekPlan[k], meals[2], bonusProductIds, products)
       /\ DiscountScore(meals[2]) = DiscountScore(meals[1])

(***************************************************************************)
(* C8: isMealLeftoverValid(day, meal) is true on every day that is not     *)
(* Sunday, whatever the meal and the headcounts; on Sunday it equals       *)
(* (day.NumberOfPeopleLeftovers > 0 and meal.CanBeLeftovers).              *)
(***************************************************************************)
C8_LeftoverValid ==
  RankStepped =>
    \A k \in DOMAIN conditions :
      LET v == conditions[k].conditions.isMealLeftoverValid
      IN  IF LastDay.Day # "Sunday"
            THEN v = TRUE
            ELSE v = (LastDay.NumberOfPeopleLeftovers > 0 /\ conditions[k].meal.CanBeLeftovers)

\* a Sunday with leftover eaters on which one candidate is valid and another
\* (not fit for leftovers) is not
C8_Witness ==
  /\ RankStepped
  /\ LastDay.Day = "Sunday"
  /\ LastDay.NumberOfPeopleLeftovers > 0
  /\ \E k \in DOMAIN conditions : conditions[k].conditions.isMealLeftoverValid
  /\ \E k \in DOMAIN conditions :
       /\ ~ conditions[k].conditions.isMealLeftoverValid
       /\ ~ conditions[k].meal.CanBeLeftovers

(***************************************************************************)
(* C9: isPreparationTimeValid(meal, day) is true exactly when              *)
(* meal.PreparationTimeMinutes <= day.MaxPreparationTime (inclusive), and  *)
(* neither rankMeals nor matchMeals commits to a day a meal whose          *)
(* preparation time exceeds the day's maximum, whatever its score.         *)
(***************************************************************************)
C9_PreparationTime ==
  /\ RankStepped =>
       /\ \A k \in DOMAIN conditions :
            conditions[k].conditions.isPreparationTimeValid
              = (conditions[k].meal.PreparationTimeMinutes <= LastDay.MaxPreparationTime)
       /\ plan[LastDay.Day] # Null =>
            plan[LastDay.Day][1].PreparationTimeMinutes <= LastDay.MaxPreparationTime
  /\ MatchStepped =>
       (planSeq[dayIndex - 1] # Null =>
          planSeq[dayIndex - 1][1].PreparationTimeMinutes <= LastDay.MaxPreparationTime)

\* a candidate with a positive score that only its preparation time kept out,
\* on a day that got a meal of a lower score or none
C9_Witness ==
  /\ RankStepped
  /\ \E k \in DOMAIN conditions :
       /\ ~ conditions[k].conditions.isPreparationTimeValid
       /\ conditions[k].conditions.hasIngredients
       /\ conditions[k].conditions.isNotInPlan
       /\ conditions[k].conditions.isMealLeftoverValid
       /\ conditions[k].conditions.isRequiredProductDiscountsValid
       /\ conditions[k].conditions.isProductShelfLifeValid
       /\ DiscountScore(conditions[k].meal) > 0
       /\ \/ plan[LastDay.Day] = Null
          \/ \E j \in DOMAIN meals :
               /\ SameMeal(plan[LastDay.Day], meals[j])
               /\ DiscountScore(meals[j]) < DiscountScore(conditions[k].meal)

IsoWeekday(date) == ((date + 3) % 7) + 1

ClaimedShelfLife(ing, date) ==
  \A j \in DOMAIN ing :
    (ing[j].MaxShelfLifeInDays # <<>> /\ ing[j].MaxShelfLifeInDays[1] # 0)
      => ing[j].MaxShelfLifeInDays[1] >= IsoWeekday(date) - 2

\* the part about rankMeals' isProductShelfLifeValid
C11_RichShelfLife ==
  RankStepped =>
    \A k \in DOMAIN conditions :
      conditions[k].conditions.isProductShelfLifeValid
        = ClaimedShelfLife(conditions[k].ingredients, LastDay.Date)

\* the part about matchMeals' isProductShelfLifeValid, on the products the
\* filter of matchMeals hands it for each meal on the day just processed
C11_StrictShelfLife ==
  MatchStepped =>
    \A k \in DOMAIN meals :
      isProductShelfLifeValidStrict(
          getRequiredProductsForMealStrict(LastDay, meals[k], products,
            [isMealLeftoverValid |-> isMealLeftoverValid(LastDay, meals[k])]),
          LastDay.Date)
        = ClaimedShelfLife(Owned(meals[k]), LastDay.Date)

C11_Claim == C11_RichShelfLife /\ C11_StrictShelfLife

(***************************************************************************)
(* C12: getRequiredProductsForMeal returns one ingredient per input        *)
(* ingredient, in the same order, with Quantity = base Quantity * m, where *)
(* m = ceil(h / meal.NumberOfPeople) is the least integer with             *)
(* m * meal.NumberOfPeople >= h, h = day.NumberOfPeople +                  *)
(* day.NumberOfPeopleLeftovers when the leftover flag is true and          *)
(* h = meal.NumberOfPeople (m = 1) when it is false; every other field is  *)
(* unchanged, and the input list still reads as before the call.           *)
(***************************************************************************)
\* the least m with m * n >= h
LeastMultiple(h, n) == CHOOSE m \in 0 .. h : m * n >= h /\ (m - 1) * n < h

ScaledBy(ing, m) ==
  [j \in DOMAIN ing |->
     [Meal |-> ing[j].Meal, Quantity |-> ing[j].Quantity * m,
      MaxShelfLifeInDays |-> ing[j].MaxShelfLifeInDays,
      IsBonusRequired |-> ing[j].IsBonusRequired, ID |-> ing[j].ID, URL |-> ing[j].URL]]

C12_Quantities ==
  RankStepped =>
    /\ \A k \in DOMAIN conditions :
         LET e == conditions[k]
             flag == e.conditions.isMealLeftoverValid
             h == IF flag THEN LastDay.NumberOfPeople + LastDay.NumberOfPeopleLeftovers
                          ELSE e.meal.NumberOfPeople
         IN  /\ Len(e.productsRequired) = Len(e.ingredients)
             /\ e.productsRequired = ScaledBy(e.ingredients, LeastMultiple(h, e.meal.NumberOfPeople))
             /\ ~ flag => e.productsRequired = e.ingredients
             /\ e.ingredients = Owned(e.meal)
    /\ plan[LastDay.Day] # Null =>
         \E k \in DOMAIN conditions :
           /\ SameMeal(plan[LastDay.Day], conditions[k].meal)
           /\ plan[LastDay.Day][1].productsRequired = conditions[k].productsRequired

\* on one day a candidate resolved with the flag false keeps its quantities
\* although the day's headcount exceeds the meal's, and a candidate resolved
\* with the flag true is rounded up (headcount not a multiple of the meal's)
C12_Witness ==
  /\ RankStepped
  /\ \E k \in DOMAIN conditions :
       /\ ~ conditions[k].conditions.isMealLeftoverValid
       /\ conditions[k].ingredients # <<>>
       /\ LastDay.NumberOfPeople + LastDay.NumberOfPeopleLeftovers
            > conditions[k].meal.NumberOfPeople
  /\ \E k \in DOMAIN conditions :
       /\ conditions[k].conditions.isMealLeftoverValid
       /\ conditions[k].ingredients # <<>>
       /\ (LastDay.NumberOfPeople + LastDay.NumberOfPeopleLeftovers)
            % conditions[k].meal.NumberOfPeople # 0
       /\ conditions[k].productsRequired[1].Quantity
            = 2 * conditions[k].ingredients[1].Quantity

(***************************************************************************)
(* C13 (as claimed): in the ranking pipeline, on a day that is not Sunday  *)
(* the multiplier is 1: every resolved ingredient quantity equals its base *)
(* quantity, whatever the day's headcount.                                 *)
(***************************************************************************)
C13_Original ==
  (RankStepped /\ LastDay.Day # "Sunday") =>
    \A k \in DOMAIN conditions :
      \A j \in DOMAIN conditions[k].ingredients :
        conditions[k].productsRequired[j].Quantity = conditions[k].ingredients[j].Quantity

(***************************************************************************)
(* C13 (amended): in the ranking pipeline the leftover flag is             *)
(* isMealLeftoverValid(day, meal), which is true on every day that is not  *)
(* Sunday, so on such a day every resolved quantity is the base quantity   *)
(* times ceil((day.NumberOfPeople + day.NumberOfPeopleLeftovers) /         *)
(* meal.NumberOfPeople): a meal for 2 people with base quantity 3 on a     *)
(* Monday with NumberOfPeople = 4, NumberOfPeopleLeftovers = 0 resolves to *)
(* quantity 6.                                                             *)
(***************************************************************************)
C13_Amended ==
  (RankStepped /\ LastDay.Day # "Sunday") =>
    \A k \in DOMAIN conditions :
      LET e == conditions[k]
          h == LastDay.NumberOfPeople + LastDay.NumberOfPeopleLeftovers
      IN  /\ e.conditions.isMealLeftoverValid
          /\ \A j \in DOMAIN e.ingredients :
               /\ e.productsRequired[j].Quantity
                    = e.ingredients[j].Quantity * LeastMultiple(h, e.meal.NumberOfPeople)
               /\ (/\ LastDay.NumberOfPeople = 4
                   /\ LastDay.NumberOfPeopleLeftovers = 0
                   /\ e.meal.NumberOfPeople = 2
                   /\ e.ingredients[j].Quantity = 3)
                    => e.productsRequired[j].Quantity = 6

\* the scenario: Monday, 4 people, no leftover eaters, a meal for 2 people
\* with an ingredient of base quantity 3
C13_Witness ==
  /\ RankStepped
  /\ LastDay.Day = "Monday"
  /\ LastDay.NumberOfPeople = 4
  /\ LastDay.NumberOfPeopleLeftovers = 0
  /\ \E k \in DOMAIN conditions :
       /\ conditions[k].meal.NumberOfPeople = 2
       /\ conditions[k].meal.PreparationTimeMinutes = 15
       /\ \E j \in DOMAIN conditions[k].ingredients :
            /\ conditions[k].ingredients[j].Quantity = 3
            /\ conditions[k].productsRequired[j].Quantity = 6

(***************************************************************************)
(* C14: when a day of rankMeals has survivors and the top score is 0, the  *)
(* committed meal is one of the survivors of that day, never null and      *)
(* never a non-survivor, and every survivor is a possible outcome of the   *)
(* random choice: in the state before the day, each survivor is among the  *)
(* entries the iteration can write.                                        *)
(***************************************************************************)
\* the survivors of the day about to be processed
NextSurvivors == { k \in DOMAIN meals : Feasible(weekPlan[dayIndex], meals[k], plan) }

\* the entries the next iteration can write
NextCommitments ==
  Commitments(Matches(weekPlan[dayIndex], meals, bonusProductIds, products, plan))

C14_AnySurvivorAtScoreZero ==
  /\ (RankStepped /\ Survivors # {} /\ \A k \in Survivors : DiscountScore(meals[k]) = 0)
       => \E k \in Survivors : SameMeal(plan[LastDay.Day], meals[k])
  /\ (/\ pc = "rankMeals"
      /\ dayIndex <= Len(weekPlan)
      /\ NextSurvivors # {}
      /\ \A k \in NextSurvivors : DiscountScore(meals[k]) = 0)
       => /\ \A k \in NextSurvivors : \E e \in NextCommitments : SameMeal(e, meals[k])
          /\ \A e \in NextCommitments : \E k \in NextSurvivors : SameMeal(e, meals[k])

\* the random choice committed a survivor that is not the first candidate:
\* another survivor of the day has a longer preparation time
C14_Witness ==
  /\ RankStepped
  /\ \A k \in Survivors : DiscountScore(meals[k]) = 0
  /\ \E k, j \in Survivors :
       /\ SameMeal(plan[LastDay.Day], meals[k])
       /\ meals[j].PreparationTimeMinutes > meals[k].PreparationTimeMinutes

(***************************************************************************)
(* C15: rankMeals enumerates the candidates by PreparationTimeMinutes      *)
(* descending, stable with respect to input meal order; when the top score *)
(* is > 0 and several survivors share it, the committed meal is the first  *)
(* of them in that enumeration: the one with the greatest                  *)
(* PreparationTimeMinutes, ties broken by input meal order.  The input     *)
(* meals array keeps its order through every step.                         *)
(***************************************************************************)
\* the position of a meal in the input array (Slugs are unique)
InputIndex(meal) == CHOOSE k \in DOMAIN meals : meals[k].Slug = meal.Slug

\* meal a comes before meal b in the enumeration
EnumeratedBefore(a, b) ==
  \/ a.PreparationTimeMinutes > b.PreparationTimeMinutes
  \/ /\ a.PreparationTimeMinutes = b.PreparationTimeMinutes
     /\ InputIndex(a) < InputIndex(b)

TopSurvivors ==
  { k \in Survivors : \A j \in Survivors : DiscountScore(meals[j]) <= DiscountScore(meals[k]) }

C15_State ==
  RankStepped =>
    /\ Len(conditions) = Len(meals)
    /\ \A a, b \in DOMAIN conditions :
         a < b => EnumeratedBefore(conditions[a].meal, conditions[b].meal)
    /\ (\E k \in Survivors : DiscountScore(meals[k]) > 0)
         => \E k \in TopSurvivors :
              /\ SameMeal(plan[LastDay.Day], meals[k])
              /\ \A j \in TopSurvivors : j = k \/ EnumeratedBefore(meals[k], meals[j])

C15_EnumerationOrder == []C15_State /\ [][meals' = meals]_vars

\* two survivors share a positive top score; the committed one comes later
\* in the input array and has the longer preparation time
C15_Witness ==
  /\ RankStepped
  /\ \E k, j \in TopSurvivors :
       /\ SameMeal(plan[LastDay.Day], meals[k])
       /\ DiscountScore(meals[k]) > 0
       /\ j < k
       /\ meals[k].PreparationTimeMinutes > meals[j].PreparationTimeMinutes

\* two survivors share a positive top score and their preparation time; the
\* committed one is the earlier in the input array
C15_TieWitness ==
  /\ RankStepped
  /\ \E k, j \in TopSurvivors :
       /\ SameMeal(plan[LastDay.Day], meals[k])
       /\ DiscountScore(meals[k]) > 0
       /\ k < j
       /\ meals[k].PreparationTimeMinutes = meals[j].PreparationTimeMinutes

(***************************************************************************)
(* C16: on a day whose Day is Sunday and whose NumberOfPeopleLeftovers is  *)
(* 0 no meal is feasible: rankMeals commits null for it and matchMeals     *)
(* yields null in its position, whatever the meals (CanBeLeftovers         *)
(* included), the products and the discount list.                          *)
(***************************************************************************)
C16_SundayWithoutLeftovers ==
  /\ (RankStepped /\ LastDay.Day = "Sunday" /\ LastDay.NumberOfPeopleLeftovers = 0)
       => /\ plan[LastDay.Day] = Null
          /\ matches = <<>>
  /\ \A k \in DOMAIN planSeq :
       (weekPlan[k].Day = "Sunday" /\ weekPlan[k].NumberOfPeopleLeftovers = 0)
         => planSeq[k] = Null

\* rankMeals wrote null for such a Sunday although a candidate fit for
\* leftovers passed the five other evaluators
C16_Witness ==
  /\ RankStepped
  /\ LastDay.Day = "Sunday"
  /\ LastDay.NumberOfPeopleLeftovers = 0
  /\ plan[LastDay.Day] = Null
  /\ \E k \in DOMAIN conditions :
       /\ conditions[k].meal.CanBeLeftovers
       /\ conditions[k].conditions.hasIngredients
       /\ conditions[k].conditions.isNotInPlan
       /\ conditions[k].conditions.isPreparationTimeValid
       /\ conditions[k].conditions.isRequiredProductDiscountsValid
       /\ conditions[k].conditions.isProductShelfLifeValid
       /\ DiscountScore(conditions[k].meal) > 0

====
